---- MODULE Spec2Model ----
(***************************************************************************)
(* Model of gui/app.py of Proxmox-B2-Helper: the run-history               *)
(* reconstruction (recent_runs), the inventory collectors (list_local,     *)
(* b2_stats, b2_list, list_local_recursive, list_vms_and_cts), the cost    *)
(* estimator, the combined views (api_status, api_backups), the size       *)
(* formatter (human_size) and the restore (restore_b2_to_local).           *)
(*                                                                         *)
(* Each group of functions has its own specification (SpecRuns, SpecView,  *)
(* SpecLocal, SpecVms, SpecSize, SpecCost, SpecRestore); the variables of  *)
(* the other groups stay idle.                                             *)
(***************************************************************************)
EXTENDS Integers, Sequences, FiniteSets, TLC

VARIABLES
    \* ---- recent_runs -------------------------------------------------
    proc,        \* behaviour of the journalctl subprocess (the log source)
    max_items,   \* recent_runs' max_items argument
    pc,          \* "idle" | "walk" | "done" | "raised"
    entries,     \* classified lines, newest first (app.py:408-418)
    runs,        \* runs emitted so far (app.py:420)
    start,       \* pending start: <<>> is None, <<e>> is the entry e
    k,           \* 1-based position of the walk in entries
    \* ---- inventory ---------------------------------------------------
    remote,      \* scope -> behaviour of `rclone lsjson` on that scope's target
    dirs,        \* scope -> the local backup directory of that scope
    tree,        \* root path -> the directory tree under it (rglob order)
    paths,       \* list_local_recursive's paths argument
    lr_max,      \* list_local_recursive's max_items argument
    hv,          \* the hypervisor: behaviour of qm/pct list and config
    nbytes,      \* human_size's argument num, as base-1024 digits
    artifacts,   \* cost_estimates' argument items
    handler,     \* "idle", or the function that produced response
    response,    \* what that function returned
    \* ---- restore ------------------------------------------------------
    dest,        \* the destination file: <<>> when absent, else <<content>>
    staging,     \* the file in /tmp/restore-<name>: <<>> or <<content>>
    rpc,         \* request -> its position in restore_b2_to_local
    picked,      \* request -> whether it holds staging_file (app.py:291)
    ret,         \* request -> what restore_b2_to_local returned to it
    writers      \* the requests whose replace() wrote dest, in order

runsVars == <<proc, max_items, pc, entries, runs, start, k>>
envVars == <<remote, dirs, tree, paths, lr_max, hv, nbytes, artifacts>>
invVars == <<envVars, handler, response>>
restoreVars == <<dest, staging, rpc, picked, ret, writers>>
vars == <<runsVars, invVars, restoreVars>>

\* The resting values a group's variables keep in the other specifications.
RunsOff ==
    /\ proc = <<>> /\ max_items = 0 /\ pc = "off"
    /\ entries = <<>> /\ runs = <<>> /\ start = <<>> /\ k = 1

InvOff ==
    /\ remote = <<>> /\ dirs = <<>> /\ tree = <<>> /\ paths = <<>>
    /\ lr_max = 0 /\ hv = <<>> /\ nbytes = <<>> /\ artifacts = <<>>
    /\ handler = "off" /\ response = <<>>

ArgsOff == nbytes = <<>> /\ artifacts = <<>>

RestoreOff ==
    /\ dest = <<>> /\ staging = <<>> /\ rpc = <<>> /\ picked = <<>>
    /\ ret = <<>> /\ writers = <<>>

\* ======================================================================
\* Bounds
\* ======================================================================
MaxLen == 4      \* longest journal (number of lines)
MaxItems == 2    \* largest max_items tried
MaxRemote == 2   \* longest remote listing (number of file objects)
MaxEntries == 2  \* most entries under one root of list_local_recursive
MaxMtime == 3    \* latest modification time of a local dump file
MaxConfLines == 2 \* most lines of a VM or container configuration

\* ======================================================================
\* Utilities
\* ======================================================================
SeqsUpTo(S, n) == UNION {[1..m -> S] : m \in 0..n}

Range(s) == {s[i] : i \in 1..Len(s)}

\* reversed(seq)
Reversed(s) == [i \in 1..Len(s) |-> s[Len(s) + 1 - i]]

\* ======================================================================
\* run_cmd (app.py:47-62)
\* ======================================================================
\* A subprocess behaves in one of four ways: it exits with a return code and
\* its (stripped) stdout and stderr, it runs into the timeout, its executable
\* is missing, or launching it fails with another exception of text msg.
RunCmdTimeoutMsg == "timeout after Ns"

run_cmd(p) ==
    CASE p.how = "exit"     -> [code |-> p.code, out |-> p.out, err |-> p.err]
      [] p.how = "timeout"  -> [code |-> 124, out |-> p.noout, err |-> RunCmdTimeoutMsg]
      [] p.how = "notfound" -> [code |-> 127, out |-> p.noout, err |-> "not found"]
      [] OTHER              -> [code |-> 1, out |-> p.noout, err |-> p.msg]

\* ======================================================================
\* Journal lines
\* ======================================================================
\* A line is its message, preceded by "<timestamp> " when stamped.  secs is
\* the instant the ISO timestamp denotes.  Messages are taken from a table
\* that records, for each, the markers it contains and whether it holds a
\* space.
MsgStarting  == "Starting backup..."
MsgBareStart == "Starting"
MsgDone      == "Done."
MsgDeact     == "backup.service: Deactivated successfully."
MsgFailStart == "Failed to start backup."
MsgExitCode  == "Failed with result 'exit-code'."
MsgNoise     == "Started backup."

Marks(msg) ==
    CASE msg = MsgStarting  -> {"Starting"}
      [] msg = MsgBareStart -> {"Starting"}
      [] msg = MsgDone      -> {"Done."}
      [] msg = MsgDeact     -> {"Deactivated successfully"}
      [] msg = MsgFailStart -> {"Failed to start"}
      [] msg = MsgExitCode  -> {"exit-code"}
      [] OTHER              -> {}

MsgHasSpace(msg) == msg \notin {MsgBareStart, MsgDone}

Times == {0, 5}

Stamped(t, msg) == [stamped |-> TRUE, secs |-> t, msg |-> msg]
Bare(msg) == [stamped |-> FALSE, secs |-> 0, msg |-> msg]

Lines ==
    {Stamped(t, m) : t \in Times, m \in {MsgStarting, MsgDone}}
    \cup {Stamped(5, MsgFailStart), Stamped(0, MsgExitCode), Stamped(0, MsgNoise)}
    \cup {Bare(MsgDeact), Bare(MsgBareStart)}

\* `marker in line`
Contains(line, marker) == marker \in Marks(line.msg)

\* line.split(" ", 1) yields two parts exactly when the line holds a space
HasSpace(line) == line.stamped \/ MsgHasSpace(line.msg)

\* ts of `ts, msg = line.split(" ", 1)`: the text before the first space.
\* Only a leading timestamp is ISO-8601; the first word of a message is not.
FirstToken(line) ==
    IF line.stamped THEN [iso |-> TRUE, secs |-> line.secs]
    ELSE [iso |-> FALSE, secs |-> 0]

\* the if/elif chain of app.py:410-418
Classify(line) ==
    IF Contains(line, "Starting") THEN "start"
    ELSE IF Contains(line, "Done.") \/ Contains(line, "Deactivated successfully") THEN "done"
    ELSE IF Contains(line, "Failed to start") \/ Contains(line, "exit-code") THEN "fail"
    ELSE "none"

\* The unpacking ts, msg = line.split(" ", 1) raises ValueError for a
\* classified line without a space.
ParseRaises(out) ==
    \E i \in 1..Len(out) : Classify(out[i]) # "none" /\ ~HasSpace(out[i])

\* Order in which the lines are scanned (app.py:409).
ScanOrderUnreversed(idx) == idx
ScanOrder(idx) == Reversed(idx)

RECURSIVE Collect(_, _)
Collect(out, idx) ==
    IF idx = <<>> THEN <<>>
    ELSE LET i == Head(idx)
             line == out[i]
         IN IF Classify(line) = "none" THEN Collect(out, Tail(idx))
            ELSE <<[time |-> FirstToken(line), note |-> Classify(line),
                    line |-> line, pos |-> i]>> \o Collect(out, Tail(idx))

\* entries of app.py:408-418.  pos is the line's index in the chronological
\* output: it identifies the line e["line"] was read from.
ParseEntries(out) == Collect(out, ScanOrder([i \in 1..Len(out) |-> i]))

\* ======================================================================
\* recent_runs: the pairing walk (app.py:420-446)
\* ======================================================================
IsTerminal(e) == e.note \in {"done", "fail"}

\* `elif e["note"] in ("done", "fail") and start`
Emits(st, e) == IsTerminal(e) /\ st # <<>>

\* app.py:427-433: the difference of the two instants, "n/a" when either
\* timestamp does not parse.
Duration(s, e) ==
    IF s.time.iso /\ e.time.iso
    THEN [known |-> TRUE, secs |-> e.time.secs - s.time.secs]
    ELSE [known |-> FALSE, secs |-> 0]

\* The dict appended at app.py:435-442.  startPos, endPos and endTime record
\* which entries were paired; the note text is not modelled.
MakeRun(s, e) ==
    [time |-> s.time,
     status |-> IF e.note = "done" THEN "ok" ELSE "fail",
     duration |-> Duration(s, e),
     startPos |-> s.pos, endPos |-> e.pos, endTime |-> e.time]

NextStartNoClear(st, e) ==
    IF e.note = "start" THEN <<e>> ELSE st
\* the pending-start slot after one iteration (app.py:423-424, 443)
NextStart(st, e) ==
    IF e.note = "start" THEN <<e>>
    ELSE IF Emits(st, e) THEN <<>>
    ELSE st

NextRuns(rs, st, e) ==
    IF e.note # "start" /\ Emits(st, e) THEN Append(rs, MakeRun(st[1], e)) ELSE rs

LoopBreaksOffByOne(rs, m) == Len(rs) > m
\* `if len(runs) >= max_items: break`
LoopBreaks(rs, m) == Len(rs) >= m

\* ----------------------------------------------------------------------
JournalOutcomes ==
    {[how |-> "exit", code |-> 0, out |-> o, err |-> ""] : o \in SeqsUpTo(Lines, MaxLen)}
    \cup {[how |-> "exit", code |-> 1, out |-> <<>>, err |-> "No journal files were found."],
          [how |-> "timeout", noout |-> <<>>],
          [how |-> "notfound", noout |-> <<>>],
          [how |-> "error", noout |-> <<>>, msg |-> "Permission denied"]}

InitRuns ==
    /\ proc \in JournalOutcomes
    /\ max_items \in 0..MaxItems
    /\ pc = "idle"
    /\ entries = <<>>
    /\ runs = <<>>
    /\ start = <<>>
    /\ k = 1
    /\ InvOff
    /\ RestoreOff

\* app.py:401-421: run journalctl, return [] on failure, classify the lines.
RecentRunsCall ==
    /\ pc = "idle"
    /\ LET r == run_cmd(proc)
       IN IF r.code # 0
          THEN pc' = "done" /\ entries' = <<>>
          ELSE IF ParseRaises(r.out)
          THEN pc' = "raised" /\ entries' = <<>>
          ELSE /\ entries' = ParseEntries(r.out)
               /\ pc' = IF entries' = <<>> THEN "done" ELSE "walk"
    /\ runs' = <<>>
    /\ start' = <<>>
    /\ k' = 1
    /\ UNCHANGED <<proc, max_items>>
    /\ UNCHANGED invVars
    /\ UNCHANGED restoreVars

\* One iteration of `for e in entries` (app.py:422-445); the function
\* returns runs when the loop breaks or runs out of entries (app.py:446).
RecentRunsStep ==
    /\ pc = "walk"
    /\ LET e == entries[k]
       IN /\ start' = NextStart(start, e)
          /\ runs' = NextRuns(runs, start, e)
          /\ IF LoopBreaks(runs', max_items) \/ k = Len(entries)
             THEN pc' = "done" /\ k' = k
             ELSE pc' = "walk" /\ k' = k + 1
    /\ UNCHANGED <<proc, max_items, entries>>
    /\ UNCHANGED invVars
    /\ UNCHANGED restoreVars

SpecRuns == InitRuns /\ [][RecentRunsCall \/ RecentRunsStep]_vars

\* ======================================================================
\* Properties of recent_runs
\* ======================================================================
JournalOk == proc.how = "exit" /\ proc.code = 0

\* the chronological journal recent_runs read
Journal == IF JournalOk THEN proc.out ELSE <<>>

NumTerminals(out) ==
    Cardinality({i \in 1..Len(out) : Classify(out[i]) \in {"done", "fail"}})

\* k sequential runs: start, terminal, start, terminal, ... in chronological
\* order, every line stamped, the stamps not decreasing.
IsSequentialRuns(out) ==
    /\ Len(out) % 2 = 0
    /\ \A i \in 1..Len(out) :
          /\ out[i].stamped
          /\ (i % 2 = 1 => Classify(out[i]) = "start")
          /\ (i % 2 = 0 => Classify(out[i]) \in {"done", "fail"})
          /\ (i > 1 => out[i - 1].secs <= out[i].secs)

\* C1: for a journal of k sequential, non-overlapping runs and
\* max_items >= k, recent_runs returns exactly k runs, each pairing a
\* terminal line with the start line right before it; the journal
\* <<00:00:00 Starting, 00:00:05 Done.>> gives one run, ok, 5 seconds.
C1_SequentialRunsPaired ==
    (pc = "done" /\ JournalOk /\ IsSequentialRuns(Journal)
        /\ max_items >= Len(Journal) \div 2 /\ max_items >= 1)
    => /\ Len(runs) = Len(Journal) \div 2
       /\ \A i \in 1..Len(runs) : runs[i].endPos = runs[i].startPos + 1
       /\ (Journal = <<Stamped(0, MsgStarting), Stamped(5, MsgDone)>>
             => /\ runs[1].status = "ok"
                /\ runs[1].duration = [known |-> TRUE, secs |-> 5])

\* C2: a run whose two timestamps parse starts no later than its terminal
\* event, and no reported duration is negative.
C2_DurationNeverNegative ==
    \A i \in 1..Len(runs) :
        /\ (runs[i].time.iso /\ runs[i].endTime.iso)
              => runs[i].time.secs <= runs[i].endTime.secs
        /\ runs[i].duration.known => runs[i].duration.secs >= 0

\* C3: no line, however malformed, makes recent_runs raise.
C3_MalformedLineNeverAborts == pc # "raised"

\* C4: the runs returned are at most the terminal events of the batch and
\* at most max_items.
C4_RunCountBounded ==
    /\ Len(runs) <= NumTerminals(Journal)
    /\ Len(runs) <= max_items

\* the walk stopped at max_items with entries left unread
C4_Witness ==
    /\ pc = "done"
    /\ max_items >= 1
    /\ Len(runs) = max_items
    /\ k < Len(entries)
    /\ NumTerminals(Journal) > max_items

\* C5: a terminal event emits a run only when a start is pending, emitting
\* clears the slot, a terminal event with no pending start changes nothing;
\* so no start or terminal line is used twice, and between the terminal
\* lines of two runs there is a start line.
C5_StepDiscipline ==
    pc = "walk" =>
        LET e == entries[k]
        IN /\ (runs' # runs) =>
                 /\ IsTerminal(e) /\ start # <<>> /\ start' = <<>>
                 /\ runs' = Append(runs, runs'[Len(runs')])
                 /\ runs'[Len(runs')].startPos = start[1].pos
                 /\ runs'[Len(runs')].endPos = e.pos
           /\ (IsTerminal(e) /\ start = <<>>) => (runs' = runs /\ start' = <<>>)

C5_UsedOnce ==
    \A i, j \in 1..Len(runs) :
        i < j =>
            /\ runs[i].startPos # runs[j].startPos
            /\ runs[i].endPos # runs[j].endPos
            /\ \E p \in 1..Len(Journal) :
                  /\ Classify(Journal[p]) = "start"
                  /\ runs[j].endPos < p /\ p < runs[i].endPos

C5_PendingSlot == [](C5_UsedOnce) /\ [][C5_StepDiscipline]_vars

\* a start followed, in scan order, by two terminal events, all walked
C5_Witness ==
    /\ pc = "done"
    /\ Len(runs) = 1
    /\ k = Len(entries)
    /\ \E i \in 1..(Len(entries) - 2) :
          /\ entries[i].note = "start"
          /\ IsTerminal(entries[i + 1])
          /\ IsTerminal(entries[i + 2])

\* C6: the runs are newest first: an earlier run of the result has its
\* start line, and its terminal line, later in the journal.
C6_NewestFirst ==
    \A i, j \in 1..Len(runs) :
        i < j =>
            /\ runs[i].startPos > runs[j].startPos
            /\ runs[i].endPos > runs[j].endPos

C6_Witness == pc = "done" /\ Len(runs) >= 2

\* ======================================================================
\* Sorting helpers
\* ======================================================================
Min(a, b) == IF a <= b THEN a ELSE b

\* s[:n]
Take(s, n) == SubSeq(s, 1, Min(n, Len(s)))

RECURSIVE SumSeq(_)
SumSeq(s) == IF s = <<>> THEN 0 ELSE Head(s) + SumSeq(Tail(s))

\* sorted(..., reverse=True) is stable: elements with equal keys keep their
\* original order.  The sort works on indices; keys[i] is the key of s[i].
RECURSIVE InsertDesc(_, _, _)
InsertDesc(acc, i, keys) ==
    IF acc = <<>> THEN <<i>>
    ELSE IF keys[Head(acc)] >= keys[i]
         THEN <<Head(acc)>> \o InsertDesc(Tail(acc), i, keys)
         ELSE <<i>> \o acc

RECURSIVE SortIdxDesc(_, _)
SortIdxDesc(n, keys) ==
    IF n = 0 THEN <<>> ELSE InsertDesc(SortIdxDesc(n - 1, keys), n, keys)

SortedDesc(s, keys) ==
    LET idx == SortIdxDesc(Len(s), keys) IN [i \in 1..Len(s) |-> s[idx[i]]]

\* sorted(p.glob(...)): the files of a directory in ascending path order;
\* files of one directory have distinct names.
RECURSIVE SortedByName(_)
SortedByName(S) ==
    IF S = {} THEN <<>>
    ELSE LET f == CHOOSE x \in S : \A y \in S : x.name <= y.name
         IN <<f>> \o SortedByName(S \ {f})

\* ======================================================================
\* human_size (app.py:39-44)
\* ======================================================================
\* A byte count is the sequence of its base-1024 digits, least significant
\* first: 1024 is <<0, 1>> and 1024**4 is <<0, 0, 0, 0, 1>>.  The counts
\* considered are integers that binary floating point holds exactly, so
\* every `num /= 1024.0` is an exact shift by one digit.
Units == <<"B", "KB", "MB", "GB", "TB", "PB">>

RECURSIVE Digits1024(_)
Digits1024(n) ==
    IF n = 0 THEN <<>> ELSE <<n % 1024>> \o Digits1024(n \div 1024)

\* the number a digit sequence denotes
RECURSIVE Value1024(_)
Value1024(ds) ==
    IF ds = <<>> THEN 0 ELSE Head(ds) + 1024 * Value1024(Tail(ds))

\* `num < 1024.0` after i divisions: no digit above the (i+1)-th is set
Below1024(ds, i) == \A j \in (i + 2)..Len(ds) : ds[j] = 0

\* The loop of app.py:40-43 from unit i on: the index of the unit at which
\* the function returns.
RECURSIVE UnitIndex(_, _)
UnitIndex(ds, i) ==
    IF i = 5 \/ Below1024(ds, i) THEN i ELSE UnitIndex(ds, i + 1)

\* num after i divisions: its integral part, and the digits of its
\* fractional part (the last one is the most significant)
Whole(ds, i) == Value1024(SubSeq(ds, i + 1, Len(ds)))
Frac(ds, i) == SubSeq(ds, 1, IF i < Len(ds) THEN i ELSE Len(ds))

\* m times a fraction, c carried in from below: [carry |-> the integral
\* part, rest |-> the digits of the fractional part]
RECURSIVE Scaled(_, _, _)
Scaled(fr, m, c) ==
    IF fr = <<>> THEN [carry |-> c, rest |-> <<>>]
    ELSE LET t == m * Head(fr) + c
             up == Scaled(Tail(fr), m, t \div 1024)
         IN [carry |-> up.carry, rest |-> <<t % 1024>> \o up.rest]

\* The format spec .1f rounds the exact value to the nearest tenth, a tie
\* going to the even one: q tenths and the fraction rest of a tenth.
\* (RoundsUpNever: the digits after the first decimal are cut off.)
RoundsUpNever(rest, q) == FALSE

RoundsUp(rest, q) ==
    /\ rest # <<>>
    /\ LET top == rest[Len(rest)]
           low == \E j \in 1..(Len(rest) - 1) : rest[j] # 0
       IN top > 512 \/ (top = 512 /\ (low \/ q % 2 = 1))

\* f"{num:.1f}" after i divisions
OneDecimal(ds, i) ==
    LET x == Scaled(Frac(ds, i), 10, 0)
        t == x.carry + (IF RoundsUp(x.rest, x.carry) THEN 1 ELSE 0)
    IN [whole |-> Whole(ds, i) + (t \div 10), tenth |-> t % 10]

\* human_size(num): "<whole>.<tenth> <unit>"
human_size(num) ==
    LET i == UnitIndex(num, 0)
        v == OneDecimal(num, i)
    IN [whole |-> v.whole, tenth |-> v.tenth, unit |-> Units[i + 1]]

\* ======================================================================
\* list_local (app.py:65-75)
\* ======================================================================
\* A local directory is missing, or holds a set of *.tar.gz files
\* [name, size, mtime]; names are numbers ordered as the paths are.
MissingDir == [exists |-> FALSE, files |-> {}]
Dir(S) == [exists |-> TRUE, files |-> S]

list_local(d) ==
    IF ~d.exists
    THEN [count |-> 0, size |-> 0, items |-> <<>>]
    ELSE LET items == SortedByName(d.files)
         IN [count |-> Len(items),
             size |-> SumSeq([i \in 1..Len(items) |-> items[i].size]),
             items |-> items]

\* ======================================================================
\* rclone lsjson and its consumers b2_stats, b2_list (app.py:78-124)
\* ======================================================================
\* stdout of rclone is one of: "" (empty), text that is no JSON (garbage),
\* a JSON list of file objects (list), the JSON object {} (emptyobj) or a
\* JSON number (scalar).  A file object has Name, Size and ModTime; numeric
\* says whether Size is a number (it is null otherwise).
Stdout(kind, files) == [kind |-> kind, files |-> files]
NoOutput == Stdout("empty", <<>>)

\* the stdout as text, for `err or out`
StdoutText(out) == IF out.kind = "empty" THEN "" ELSE "<stdout>"

\* `err or out`
ErrOrOut(err, out) == IF err # "" THEN err ELSE StdoutText(out)

\* json.loads(out) raises
JsonInvalid(out) == out.kind \in {"empty", "garbage"}

\* iterating the decoded value and reading f.get("Size", 0) of each element
\* as a number raises TypeError
SizesRaise(out) ==
    \/ out.kind = "scalar"
    \/ out.kind = "list" /\ \E i \in 1..Len(out.files) : ~out.files[i].numeric

\* the decoded value as the sequence a for-loop over it yields
Decoded(out) == IF out.kind = "list" THEN out.files ELSE <<>>

ExcText(out) == IF JsonInvalid(out) THEN "Expecting value" ELSE "TypeError"

b2_stats(p) ==
    LET r == run_cmd(p)
    IN IF r.code # 0
       THEN [raised |-> FALSE, count |-> 0, size |-> 0,
             hasError |-> TRUE, error |-> ErrOrOut(r.err, r.out)]
       ELSE IF JsonInvalid(r.out) \/ SizesRaise(r.out)
       THEN [raised |-> FALSE, count |-> 0, size |-> 0,
             hasError |-> TRUE, error |-> ExcText(r.out)]
       ELSE LET files == Decoded(r.out)
            IN [raised |-> FALSE, count |-> Len(files),
                size |-> SumSeq([i \in 1..Len(files) |-> files[i].Size]),
                hasError |-> FALSE, error |-> ""]

B2ListDefaultMax == 200

B2Item(f) ==
    [name |-> f.Name, size |-> f.Size, size_h |-> human_size(Digits1024(f.Size)),
     time |-> f.ModTime]

B2ListFailed(msg) ==
    [raised |-> FALSE, hasError |-> TRUE, error |-> msg, items |-> <<>>,
     hasTotal |-> FALSE, total |-> 0]

B2ListListing(out, m) ==
    LET files == Decoded(out)
        files_sorted ==
            Take(SortedDesc(files, [i \in 1..Len(files) |-> files[i].ModTime]), m)
    IN [raised |-> FALSE, hasError |-> FALSE, error |-> "",
        items |-> [i \in 1..Len(files_sorted) |-> B2Item(files_sorted[i])],
        hasTotal |-> TRUE,
        total |-> SumSeq([i \in 1..Len(files) |-> files[i].Size])]

\* b2_list without its try/except: the exception leaves the function
b2_list_uncaught(p, m) ==
    LET r == run_cmd(p)
    IN IF r.code # 0 THEN B2ListFailed(ErrOrOut(r.err, r.out))
       ELSE IF JsonInvalid(r.out) \/ SizesRaise(r.out)
       THEN [B2ListFailed(ExcText(r.out)) EXCEPT !.raised = TRUE]
       ELSE B2ListListing(r.out, m)

b2_list(p, m) ==
    LET r == run_cmd(p)
    IN IF r.code # 0 THEN B2ListFailed(ErrOrOut(r.err, r.out))
       ELSE IF JsonInvalid(r.out) \/ SizesRaise(r.out)
       THEN B2ListFailed(ExcText(r.out))
       ELSE B2ListListing(r.out, m)

\* ======================================================================
\* list_local_recursive (app.py:143-167)
\* ======================================================================
\* A root is missing, or holds the entries p.rglob("*") yields, in that
\* order; an entry is a file or a directory.  An item's time is kept as the
\* modification time it is formatted from; stat() is taken to succeed.
MissingRoot == [exists |-> FALSE, entries |-> <<>>]
Root(es) == [exists |-> TRUE, entries |-> es]

\* key of the sort at app.py:149
RglobKey(f) == IF f.isfile THEN f.mtime ELSE 0

LocalItem(base, f) ==
    [name |-> f.name, path |-> <<base, f.name>>, size |-> f.size,
     size_h |-> human_size(Digits1024(f.size)), time |-> f.mtime]

\* the files of one root in the order the inner loop meets them
RootFiles(base, t) ==
    IF ~t[base].exists THEN <<>>
    ELSE LET es == t[base].entries
             sorted == SortedDesc(es, [i \in 1..Len(es) |-> RglobKey(es[i])])
             files == SelectSeq(sorted, LAMBDA f : f.isfile)
         IN [i \in 1..Len(files) |-> LocalItem(base, files[i])]

\* The loops of app.py:145-166: items is appended to, and the function
\* returns as soon as the append makes len(items) >= max_items.
RECURSIVE AppendUntil(_, _, _)
AppendUntil(items, more, m) ==
    IF more = <<>> THEN [items |-> items, returned |-> FALSE]
    ELSE LET items2 == Append(items, Head(more))
         IN IF Len(items2) >= m
            THEN [items |-> items2, returned |-> TRUE]
            ELSE AppendUntil(items2, Tail(more), m)

RECURSIVE WalkRoots(_, _, _, _)
WalkRoots(items, ps, t, m) ==
    IF ps = <<>> THEN items
    ELSE LET r == AppendUntil(items, RootFiles(Head(ps), t), m)
         IN IF r.returned THEN r.items ELSE WalkRoots(r.items, Tail(ps), t, m)

list_local_recursive(ps, t, m) == WalkRoots(<<>>, ps, t, m)

\* ======================================================================
\* cost_estimates (app.py:170-188)
\* ======================================================================
\* A cost is written exactly, as the base-1024 digits of its multiple of
\* 1 / (1000 * 2**30) currency units: the rates 0.005 and 0.01 per GB are 5
\* and 10 thousandths, and size_bytes / 2**30 * rate is size_bytes * 5 (or
\* 10) such units.  Products and sums are those of the numbers the floats
\* stand for.
StorageRateMilli == 5
EgressRateMilli == 10

\* it.get("size", 0)
SizeBytes(it) == IF "size" \in DOMAIN it THEN it.size ELSE 0

\* size_gb * rate
Cost(size_bytes, rate) ==
    LET x == Scaled(Digits1024(size_bytes), rate, 0)
    IN x.rest \o Digits1024(x.carry)

\* a + b (+ the carry c) of two costs
RECURSIVE AddDigits(_, _, _)
AddDigits(a, b, c) ==
    IF a = <<>> /\ b = <<>> THEN Digits1024(c)
    ELSE LET x == (IF a = <<>> THEN 0 ELSE Head(a))
                  + (IF b = <<>> THEN 0 ELSE Head(b)) + c
         IN <<x % 1024>> \o AddDigits(IF a = <<>> THEN <<>> ELSE Tail(a),
                                       IF b = <<>> THEN <<>> ELSE Tail(b),
                                       x \div 1024)

\* it_copy = dict(it) with the two keys set (app.py:184-186)
Costed(it, storage, egress) ==
    ("est_storage" :> storage) @@ ("est_egress" :> egress) @@ it

\* One iteration of the loop (app.py:177-187).  items collects the input
\* dicts as the iteration leaves them: the keys are set on the copy.
\* (CostStepInPlace: it_copy is the input dict itself.)
CostStepInPlace(acc, it) ==
    LET storage == Cost(SizeBytes(it), StorageRateMilli)
        egress == Cost(SizeBytes(it), EgressRateMilli)
    IN [est |-> Append(acc.est, Costed(it, storage, egress)),
        total_storage |-> AddDigits(acc.total_storage, storage, 0),
        total_egress |-> AddDigits(acc.total_egress, egress, 0),
        items |-> Append(acc.items, Costed(it, storage, egress))]

CostStep(acc, it) ==
    LET storage == Cost(SizeBytes(it), StorageRateMilli)
        egress == Cost(SizeBytes(it), EgressRateMilli)
    IN [est |-> Append(acc.est, Costed(it, storage, egress)),
        total_storage |-> AddDigits(acc.total_storage, storage, 0),
        total_egress |-> AddDigits(acc.total_egress, egress, 0),
        items |-> Append(acc.items, it)]

RECURSIVE CostLoop(_, _)
CostLoop(rest, acc) ==
    IF rest = <<>> THEN acc ELSE CostLoop(Tail(rest), CostStep(acc, Head(rest)))

\* est, total_storage and total_egress are what the function returns; items
\* is the argument as the call leaves it
cost_estimates(items) ==
    CostLoop(items, [est |-> <<>>, total_storage |-> <<>>, total_egress |-> <<>>,
                     items |-> <<>>])

\* ======================================================================
\* The combined views: api_status (app.py:553-569), api_backups
\* (app.py:572-594)
\* ======================================================================
Scopes == {"configs", "vms"}
DumpRoots == <<"/var/lib/vz/dump", "/mnt/thinner/backups">>
DumpMaxItems == 400

\* A handler evaluates its tiers one after the other; an exception raised
\* by one of them leaves the handler, and Flask answers 500.  res[t] is the
\* value the call for tier t yields.
RECURSIVE Gather(_, _, _)
Gather(order, res, acc) ==
    IF order = <<>> THEN [code |-> 200, body |-> acc]
    ELSE LET r == res[Head(order)]
         IN IF r.raised THEN [code |-> 500, body |-> <<>>]
            ELSE Gather(Tail(order), res, acc @@ (Head(order) :> r))

WithCosts(rec, items) ==
    LET c == cost_estimates(items)
    IN [tier |-> rec, raised |-> FALSE, items |-> c.est,
        total_storage |-> c.total_storage, total_egress |-> c.total_egress]

\* one tier of api_backups: the collector's dict, its items costed
BackupsTier(t, rem, ds, tr) ==
    CASE t \in {"b2_configs", "b2_vms"} ->
            LET b == b2_list(rem[IF t = "b2_configs" THEN "configs" ELSE "vms"],
                             B2ListDefaultMax)
            IN IF b.raised THEN b ELSE WithCosts(b, b.items)
      [] t \in {"local_configs", "local_vms"} ->
            LET l == list_local(ds[IF t = "local_configs" THEN "configs" ELSE "vms"])
            IN WithCosts(l, l.items)
      [] OTHER ->
            WithCosts(<<>>, list_local_recursive(DumpRoots, tr, DumpMaxItems))

\* the order of the calls in api_backups
BackupsOrder == <<"b2_configs", "b2_vms", "local_configs", "local_vms", "local_vms_dump">>

BackupsTiers(rem, ds, tr) ==
    [t \in Range(BackupsOrder) |-> BackupsTier(t, rem, ds, tr)]

api_backups(rem, ds, tr) == Gather(BackupsOrder, BackupsTiers(rem, ds, tr), <<>>)

\* one tier of api_status
StatusTier(t, rem, ds) ==
    CASE t = "local_configs" -> [tier |-> list_local(ds["configs"]), raised |-> FALSE]
      [] t = "local_vms" -> [tier |-> list_local(ds["vms"]), raised |-> FALSE]
      [] t = "remote_configs" ->
            LET b == b2_stats(rem["configs"]) IN [tier |-> b, raised |-> b.raised]
      [] OTHER ->
            LET b == b2_stats(rem["vms"]) IN [tier |-> b, raised |-> b.raised]

StatusOrder == <<"local_configs", "local_vms", "remote_configs", "remote_vms">>

StatusTiers(rem, ds) == [t \in Range(StatusOrder) |-> StatusTier(t, rem, ds)]

api_status(rem, ds) == Gather(StatusOrder, StatusTiers(rem, ds), <<>>)

\* ----------------------------------------------------------------------
RFile(n, s, t) == [Name |-> n, Size |-> s, ModTime |-> t, numeric |-> TRUE]
RemoteFiles == {RFile(1, 3, 1), RFile(2, 1, 2)}

\* a file object whose Size is null
NullSizeFile == [Name |-> 3, Size |-> 0, ModTime |-> 2, numeric |-> FALSE]

Exit(c, out, err) == [how |-> "exit", code |-> c, out |-> out, err |-> err]

RcloneFailures ==
    {Exit(1, NoOutput, "directory not found"),
     Exit(1, NoOutput, ""),
     Exit(1, Stdout("garbage", <<>>), ""),
     [how |-> "timeout", noout |-> NoOutput],
     [how |-> "notfound", noout |-> NoOutput],
     [how |-> "error", noout |-> NoOutput, msg |-> "Permission denied"]}

RcloneListings ==
    {Exit(0, Stdout("list", fs), "") : fs \in SeqsUpTo(RemoteFiles, MaxRemote)}

RcloneOddOutputs ==
    {Exit(0, Stdout(kind, <<>>), "") : kind \in {"empty", "garbage", "emptyobj", "scalar"}}
    \cup {Exit(0, Stdout("list", <<NullSizeFile>>), ""),
          Exit(0, Stdout("list", <<RFile(1, 3, 1), NullSizeFile>>), "")}

RcloneOutcomes == RcloneListings \cup RcloneOddOutputs \cup RcloneFailures

LFile(n) == [name |-> n, size |-> n, mtime |-> 3 - n]
LocalDirs == {MissingDir, Dir({LFile(2), LFile(1)})}

DumpFile(m) == [name |-> m, mtime |-> m, size |-> 1, isfile |-> TRUE]
SubDir == [name |-> 0, mtime |-> 1, size |-> 0, isfile |-> FALSE]

InitView ==
    /\ RunsOff
    /\ remote \in [Scopes -> RcloneOutcomes]
    /\ dirs \in [Scopes -> LocalDirs]
    /\ tree \in {[r \in Range(DumpRoots) |-> MissingRoot],
                 (DumpRoots[1] :> Root(<<DumpFile(1)>>)) @@
                 (DumpRoots[2] :> Root(<<SubDir, DumpFile(2)>>))}
    /\ paths = DumpRoots
    /\ lr_max = DumpMaxItems
    /\ hv = <<>>
    /\ ArgsOff
    /\ RestoreOff
    /\ handler = "idle"
    /\ response = <<>>

ApiStatus ==
    /\ handler = "idle"
    /\ handler' = "api_status"
    /\ response' = api_status(remote, dirs)
    /\ UNCHANGED envVars
    /\ UNCHANGED runsVars
    /\ UNCHANGED restoreVars

ApiBackups ==
    /\ handler = "idle"
    /\ handler' = "api_backups"
    /\ response' = api_backups(remote, dirs, tree)
    /\ UNCHANGED envVars
    /\ UNCHANGED runsVars
    /\ UNCHANGED restoreVars

SpecView == InitView /\ [][ApiStatus \/ ApiBackups]_vars

\* ======================================================================
\* Properties of the combined views
\* ======================================================================
\* The remote listing of a scope failed: the command did not exit with 0,
\* or what it printed could not be read as a list of files with sizes.
RemoteFailed(p) ==
    LET r == run_cmd(p)
    IN r.code # 0 \/ JsonInvalid(r.out) \/ SizesRaise(r.out)

\* the text the collector attaches to such a failure
FailureText(p) ==
    LET r == run_cmd(p)
    IN IF r.code # 0 THEN ErrOrOut(r.err, r.out) ELSE ExcText(r.out)

\* C7: a remote failure in one scope leaves the entries of all other tiers
\* of api_backups and api_status what they are when that listing succeeds,
\* the response is produced and the failing tier carries the collector's
\* error; evaluating the tiers in another order gives the same response.
C7_PartialFailureIsolated ==
    /\ handler = "api_backups" =>
          /\ response.code = 200
          /\ \A s \in Scopes :
                RemoteFailed(remote[s]) =>
                    LET t == IF s = "configs" THEN "b2_configs" ELSE "b2_vms"
                    IN /\ response.body[t].tier.hasError
                       /\ response.body[t].tier.error = FailureText(remote[s])
                       /\ response.body[t].items = <<>>
                       /\ \A g \in RcloneListings, u \in Range(BackupsOrder) \ {t} :
                             response.body[u] =
                                 BackupsTier(u, [remote EXCEPT ![s] = g], dirs, tree)
          /\ \A res \in {BackupsTiers(remote, dirs, tree)} :
                \A t1 \in DOMAIN res :
                \A t2 \in DOMAIN res \ {t1} :
                \A t3 \in DOMAIN res \ {t1, t2} :
                \A t4 \in DOMAIN res \ {t1, t2, t3} :
                \A t5 \in DOMAIN res \ {t1, t2, t3, t4} :
                    Gather(<<t1, t2, t3, t4, t5>>, res, <<>>) = response
    /\ handler = "api_status" =>
          /\ response.code = 200
          /\ \A s \in Scopes :
                RemoteFailed(remote[s]) =>
                    LET t == IF s = "configs" THEN "remote_configs" ELSE "remote_vms"
                    IN /\ response.body[t].tier.hasError
                       /\ response.body[t].tier.error = FailureText(remote[s])
                       /\ response.body[t].tier.count = 0
                       /\ response.body[t].tier.size = 0
                       /\ \A g \in RcloneListings, u \in Range(StatusOrder) \ {t} :
                             response.body[u] =
                                 StatusTier(u, [remote EXCEPT ![s] = g], dirs)
          /\ \A res \in {StatusTiers(remote, dirs)} :
                \A t1 \in DOMAIN res :
                \A t2 \in DOMAIN res \ {t1} :
                \A t3 \in DOMAIN res \ {t1, t2} :
                \A t4 \in DOMAIN res \ {t1, t2, t3} :
                    Gather(<<t1, t2, t3, t4>>, res, <<>>) = response

\* the configs listing failed while the other tiers have files to show
C7_Witness ==
    /\ handler = "api_backups"
    /\ RemoteFailed(remote["configs"])
    /\ ~RemoteFailed(remote["vms"])
    /\ response.code = 200
    /\ response.body["b2_configs"].tier.hasError
    /\ Len(response.body["b2_vms"].items) = 2
    /\ Len(response.body["local_configs"].items) = 2
    /\ Len(response.body["local_vms_dump"].items) = 2

\* what rclone printed is a listing: a JSON list of file objects with sizes
ValidListing(out) ==
    out.kind = "list" /\ \A i \in 1..Len(out.files) : out.files[i].numeric

\* the source is unavailable: the command exits non-zero, times out or
\* cannot be launched, or its output is no listing
SourceUnavailable(p) ==
    LET r == run_cmd(p) IN r.code # 0 \/ ~ValidListing(r.out)

\* C8: an unavailable source degrades to an empty result annotated with an
\* error message and never raises: recent_runs returns [], b2_stats returns
\* count 0, size 0 and an error message, b2_list returns no items and an
\* error message; list_local of a missing directory is {0, 0, []}.
C8_UnavailableDegrades ==
    /\ pc # "off" /\ proc.how # "exit" => pc # "raised"
    /\ (pc = "done" /\ ~JournalOk) => runs = <<>>
    /\ handler = "api_status" =>
          /\ response.code = 200
          /\ \A s \in Scopes :
                /\ SourceUnavailable(remote[s]) =>
                      LET b == response.body[IF s = "configs" THEN "remote_configs"
                                             ELSE "remote_vms"].tier
                      IN b.count = 0 /\ b.size = 0 /\ b.hasError /\ b.error # ""
                /\ ~dirs[s].exists =>
                      response.body[IF s = "configs" THEN "local_configs"
                                    ELSE "local_vms"].tier
                          = [count |-> 0, size |-> 0, items |-> <<>>]
    /\ handler = "api_backups" =>
          /\ response.code = 200
          /\ \A s \in Scopes :
                SourceUnavailable(remote[s]) =>
                    LET b == response.body[IF s = "configs" THEN "b2_configs"
                                           ELSE "b2_vms"].tier
                    IN b.items = <<>> /\ b.hasError /\ b.error # ""

\* ======================================================================
\* list_local_recursive on its own
\* ======================================================================
RootEntries == {DumpFile(m) : m \in 1..MaxMtime} \cup {SubDir}
RootOptions == {MissingRoot} \cup {Root(es) : es \in SeqsUpTo(RootEntries, MaxEntries)}
PathLists ==
    {<<>>, <<DumpRoots[1]>>, <<DumpRoots[2]>>, DumpRoots, Reversed(DumpRoots)}

InitLocal ==
    /\ RunsOff
    /\ remote = <<>>
    /\ dirs = <<>>
    /\ tree \in [Range(DumpRoots) -> RootOptions]
    /\ paths \in PathLists
    /\ lr_max \in 0..MaxItems
    /\ hv = <<>>
    /\ ArgsOff
    /\ RestoreOff
    /\ handler = "idle"
    /\ response = <<>>

ListLocalRecursive ==
    /\ handler = "idle"
    /\ handler' = "list_local_recursive"
    /\ response' = list_local_recursive(paths, tree, lr_max)
    /\ UNCHANGED envVars
    /\ UNCHANGED runsVars
    /\ UNCHANGED restoreVars

SpecLocal == InitLocal /\ [][ListLocalRecursive]_vars

\* C9: list_local_recursive returns at most max_items files, newest first
\* over the whole result, none of them from a root that does not exist.
C9_CappedNewestFirst ==
    handler = "list_local_recursive" =>
        /\ Len(response) <= lr_max
        /\ \A i, j \in 1..Len(response) :
              i < j => response[i].time >= response[j].time
        /\ \A i \in 1..Len(response) : tree[response[i].path[1]].exists

\* ======================================================================
\* list_vms_and_cts (app.py:191-251)
\* ======================================================================
\* A line of `qm config` / `pct config` output is one of:
\*   other   - no "size=" in it
\*   size    - "...,size=<val><unit>" with a number val and unit G, T or M
\*   nomatch - "size=" not followed by digits and a unit (the regex fails)
\*   badnum  - "size=1.2.3G": the regex matches, float() raises ValueError
ConfOther == [kind |-> "other", val |-> 0, unit |-> "G"]
ConfSize(v, u) == [kind |-> "size", val |-> v, unit |-> u]
ConfNoMatch == [kind |-> "nomatch", val |-> 0, unit |-> "G"]
ConfBadNum == [kind |-> "badnum", val |-> 0, unit |-> "G"]

\* parse_size_gb (app.py:192-203).  Sizes are kept in 1/1024 GB so that the
\* M unit stays an integer: gb1024 is 1024 times the value returned.
parse_size_gb(text) ==
    IF text.kind \in {"other", "nomatch"} THEN [raised |-> FALSE, gb1024 |-> 0]
    ELSE IF text.kind = "badnum" THEN [raised |-> TRUE, gb1024 |-> 0]
    ELSE IF text.unit = "T" THEN [raised |-> FALSE, gb1024 |-> text.val * 1024 * 1024]
    ELSE IF text.unit = "M" THEN [raised |-> FALSE, gb1024 |-> text.val]
    ELSE [raised |-> FALSE, gb1024 |-> text.val * 1024]

\* `"size=" in ln`
HasSizeWord(ln) == ln.kind # "other"

RECURSIVE SumSizes(_, _)
SumSizes(lines, size) ==
    IF lines = <<>> THEN [raised |-> FALSE, gb1024 |-> size]
    ELSE IF ~HasSizeWord(Head(lines)) THEN SumSizes(Tail(lines), size)
    ELSE LET r == parse_size_gb(Head(lines))
         IN IF r.raised THEN r ELSE SumSizes(Tail(lines), size + r.gb1024)

\* vm_disk_size and ct_disk_size (app.py:205-223); p is the behaviour of
\* the `qm config <id>` or `pct config <id>` command
disk_size(p) ==
    LET r == run_cmd(p)
    IN IF r.code # 0 THEN [raised |-> FALSE, gb1024 |-> 0] ELSE SumSizes(r.out, 0)

\* out.splitlines()[1:]
DropFirst(s) == IF s = <<>> THEN <<>> ELSE Tail(s)

VmEntry(parts, type, sz) ==
    [id |-> parts[1],
     name |-> IF type = "qemu" THEN parts[2] ELSE parts[3],
     status |-> IF type = "qemu" THEN parts[3] ELSE parts[2],
     type |-> type, size_gb1024 |-> sz, est_storage |-> sz * StorageRateMilli]

\* The loop over the rows inside the try (app.py:231-236, 243-248): an
\* exception ends the loop, `except Exception: pass` keeps what vms holds.
RECURSIVE RowLoop(_, _, _, _)
RowLoop(rows, type, config, vms) ==
    IF rows = <<>> THEN vms
    ELSE LET parts == Head(rows)
         IN IF Len(parts) < 3 THEN RowLoop(Tail(rows), type, config, vms)
            ELSE LET sz == disk_size(config[parts[1]])
                 IN IF sz.raised THEN vms
                    ELSE RowLoop(Tail(rows), type, config,
                                 Append(vms, VmEntry(parts, type, sz.gb1024)))

list_vms_and_cts(h) ==
    LET q == run_cmd(h.qm)
        vms1 == IF q.code = 0 THEN RowLoop(DropFirst(q.out), "qemu", h.config, <<>>)
                ELSE <<>>
        c == run_cmd(h.pct)
    IN IF c.code = 0 THEN RowLoop(DropFirst(c.out), "lxc", h.config, vms1) ELSE vms1

\* ----------------------------------------------------------------------
QmHeader == <<"VMID", "NAME", "STATUS">>
PctHeader == <<"VMID", "Status", "Name">>
Vm(id) == <<id, "vm", "running">>
Ct(id) == <<id, "stopped", "ct">>
ShortRow == <<"~">>

ListFailed == Exit(1, <<>>, "command failed")

QmLists ==
    {ListFailed}
    \cup {Exit(0, <<QmHeader>> \o rows, "") :
            rows \in {<<>>, <<Vm("100")>>, <<Vm("100"), Vm("101")>>,
                      <<ShortRow, Vm("100"), Vm("101")>>}}

PctLists ==
    {ListFailed} \cup {Exit(0, <<PctHeader>> \o rows, "") : rows \in {<<>>, <<Ct("200")>>}}

ConfLines ==
    {ConfOther, ConfSize(32, "G"), ConfSize(512, "M"), ConfSize(1, "T"),
     ConfNoMatch, ConfBadNum}

VmConfigs ==
    {Exit(2, <<>>, "Configuration file does not exist")}
    \cup {Exit(0, ls, "") : ls \in SeqsUpTo(ConfLines, MaxConfLines)}

CtConfigs ==
    {Exit(2, <<>>, "Configuration file does not exist"),
     Exit(0, <<ConfSize(32, "G")>>, ""), Exit(0, <<ConfBadNum>>, "")}

InitVms ==
    /\ RunsOff
    /\ remote = <<>> /\ dirs = <<>> /\ tree = <<>> /\ paths = <<>> /\ lr_max = 0
    /\ \E q \in QmLists, c \in PctLists, c100 \in VmConfigs, c101 \in VmConfigs,
          c200 \in CtConfigs :
          hv = [qm |-> q, pct |-> c,
                config |-> ("100" :> c100) @@ ("101" :> c101) @@ ("200" :> c200)]
    /\ ArgsOff
    /\ RestoreOff
    /\ handler = "idle"
    /\ response = <<>>

ListVmsAndCts ==
    /\ handler = "idle"
    /\ handler' = "list_vms_and_cts"
    /\ response' = list_vms_and_cts(hv)
    /\ UNCHANGED envVars
    /\ UNCHANGED runsVars
    /\ UNCHANGED restoreVars

SpecVms == InitVms /\ [][ListVmsAndCts]_vars

\* the rows of a listing that name a VM or container
ListedRows(p) ==
    LET r == run_cmd(p)
    IN IF r.code # 0 THEN <<>>
       ELSE SelectSeq(DropFirst(r.out), LAMBDA parts : Len(parts) >= 3)

\* the configuration is missing (the command fails) or holds a size= value
\* that is no number
ConfigUnusable(p) ==
    LET r == run_cmd(p)
    IN r.code # 0 \/ \E i \in 1..Len(r.out) : r.out[i].kind = "badnum"

\* C10: list_vms_and_cts returns one entry per VM and container row, in the
\* order of the listings, and an entry whose configuration is missing or
\* unparsable has size 0.
C10_EveryRowListed ==
    handler = "list_vms_and_cts" =>
        LET rows == ListedRows(hv.qm) \o ListedRows(hv.pct)
        IN /\ Len(response) = Len(rows)
           /\ \A i \in 1..Len(rows) :
                 /\ response[i].id = rows[i][1]
                 /\ ConfigUnusable(hv.config[rows[i][1]]) => response[i].size_gb1024 = 0

\* ======================================================================
\* human_size on its own
\* ======================================================================
MaxDigits == 7   \* most base-1024 digits of a byte count

\* Digits that reach the cases of the rounding: 256/1024 is a tie that
\* goes down, 768/1024 a tie that goes up, 1023/1024 rounds to the next
\* whole number.
SizeDigits == {0, 1, 256, 768, 1023}

\* the positions of the set digits lie within 5 digits (50 bits) of each
\* other: the integer is a binary64 value
HeldExactly(ds) ==
    \A i, j \in 1..Len(ds) : ds[i] # 0 /\ ds[j] # 0 => j - i <= 4

ByteCounts ==
    {ds \in SeqsUpTo(SizeDigits, MaxDigits) :
        (ds = <<>> \/ ds[Len(ds)] # 0) /\ HeldExactly(ds)}

InitSize ==
    /\ RunsOff
    /\ remote = <<>> /\ dirs = <<>> /\ tree = <<>> /\ paths = <<>> /\ lr_max = 0
    /\ hv = <<>>
    /\ nbytes \in ByteCounts
    /\ artifacts = <<>>
    /\ RestoreOff
    /\ handler = "idle"
    /\ response = <<>>

HumanSize ==
    /\ handler = "idle"
    /\ handler' = "human_size"
    /\ response' = human_size(nbytes)
    /\ UNCHANGED envVars
    /\ UNCHANGED runsVars
    /\ UNCHANGED restoreVars

SpecSize == InitSize /\ [][HumanSize]_vars

\* the number of times n can be divided by 1024 before it falls below 1024
Divisions(ds) ==
    IF \A j \in 1..Len(ds) : ds[j] = 0 THEN 0
    ELSE (CHOOSE j \in 1..Len(ds) : ds[j] # 0 /\ \A l \in (j + 1)..Len(ds) : ds[l] = 0) - 1

\* whole.tenth is n / 1024**i to one decimal: it lies within half a tenth
\* of the quotient.  The quotient is W + F with W integral and 0 <= F < 1;
\* twenty times F is g and a rest.
WithinHalfTenth(ds, i, whole, tenth) ==
    LET x == Scaled(Frac(ds, i), 20, 0)
        g == x.carry
        exact == \A j \in 1..Len(x.rest) : x.rest[j] = 0
        t == 10 * (whole - Whole(ds, i)) + tenth
    IN /\ whole - Whole(ds, i) \in {0, 1}
       /\ 2 * t - 1 <= g
       /\ g < 2 * t + 1 \/ (g = 2 * t + 1 /\ exact)

\* C11: human_size picks the unit with index min(5, number of divisions by
\* 1024 before n falls below 1024) and shows n / 1024**index to one decimal
\* (0 is "0.0 B", 1024 is "1.0 KB", 1024**4 is "1.0 TB"); the value shown
\* is below 1024 for every unit except PB.
C11_UnitAndValue ==
    handler = "human_size" =>
        LET i == IF Divisions(nbytes) < 5 THEN Divisions(nbytes) ELSE 5
        IN /\ response.unit = Units[i + 1]
           /\ WithinHalfTenth(nbytes, i, response.whole, response.tenth)
           /\ nbytes = <<>> => response = [whole |-> 0, tenth |-> 0, unit |-> "B"]
           /\ nbytes = <<0, 1>> => response = [whole |-> 1, tenth |-> 0, unit |-> "KB"]
           /\ nbytes = <<0, 0, 0, 0, 1>> =>
                  response = [whole |-> 1, tenth |-> 0, unit |-> "TB"]
           /\ response.unit # "PB" => response.whole < 1024

\* C11 as amended: the unit, the one-decimal value and the three examples
\* as above; for every unit except PB the quotient that is formatted is
\* below 1024, and the value shown is at most 1024.0.
C11_UnitAndValueUpTo1024 ==
    handler = "human_size" =>
        LET i == IF Divisions(nbytes) < 5 THEN Divisions(nbytes) ELSE 5
        IN /\ response.unit = Units[i + 1]
           /\ WithinHalfTenth(nbytes, i, response.whole, response.tenth)
           /\ nbytes = <<>> => response = [whole |-> 0, tenth |-> 0, unit |-> "B"]
           /\ nbytes = <<0, 1>> => response = [whole |-> 1, tenth |-> 0, unit |-> "KB"]
           /\ nbytes = <<0, 0, 0, 0, 1>> =>
                  response = [whole |-> 1, tenth |-> 0, unit |-> "TB"]
           /\ response.unit # "PB" =>
                  /\ Whole(nbytes, i) < 1024
                  /\ response.whole < 1024
                     \/ (response.whole = 1024 /\ response.tenth = 0)

\* 1024**2 - 1 bytes are shown as "1024.0 KB"
C11_Witness ==
    /\ handler = "human_size"
    /\ nbytes = <<1023, 1023>>
    /\ response = [whole |-> 1024, tenth |-> 0, unit |-> "KB"]

\* ======================================================================
\* cost_estimates on its own
\* ======================================================================
MaxArtifacts == 3   \* most items handed to cost_estimates

\* The dicts tried: sizes of 0, 1, 1 GiB and 2**31 - 1 bytes, a dict
\* without a size, and one that already carries the two cost keys.
CostItems ==
    {[name |-> 1, size |-> 0], [name |-> 2, size |-> 1],
     [name |-> 3, size |-> 1073741824], [name |-> 4, size |-> 2147483647],
     [name |-> 5],
     [name |-> 6, size |-> 1024, est_storage |-> <<1>>, est_egress |-> <<1>>]}

InitCost ==
    /\ RunsOff
    /\ remote = <<>> /\ dirs = <<>> /\ tree = <<>> /\ paths = <<>> /\ lr_max = 0
    /\ hv = <<>>
    /\ nbytes = <<>>
    /\ artifacts \in SeqsUpTo(CostItems, MaxArtifacts)
    /\ RestoreOff
    /\ handler = "idle"
    /\ response = <<>>

CostEstimates ==
    /\ handler = "idle"
    /\ handler' = "cost_estimates"
    /\ LET c == cost_estimates(artifacts)
       IN /\ response' = [est |-> c.est, total_storage |-> c.total_storage,
                          total_egress |-> c.total_egress]
          /\ artifacts' = c.items
    /\ UNCHANGED <<remote, dirs, tree, paths, lr_max, hv, nbytes>>
    /\ UNCHANGED runsVars
    /\ UNCHANGED restoreVars

SpecCost == InitCost /\ [][CostEstimates]_vars

CostKeys == {"est_storage", "est_egress"}

\* the sum of a list of costs, taken from left to right
RECURSIVE SumCosts(_, _)
SumCosts(cs, acc) ==
    IF cs = <<>> THEN acc ELSE SumCosts(Tail(cs), AddDigits(acc, Head(cs), 0))

\* size * 5 thousandths of a currency unit per GiB
FiveThousandths(size) ==
    LET d == Digits1024(size)
        d2 == AddDigits(d, d, 0)
        d4 == AddDigits(d2, d2, 0)
    IN AddDigits(d4, d, 0)

C12_Costed ==
    handler = "cost_estimates" =>
        LET est == response.est
        IN /\ Len(est) = Len(artifacts)
           /\ \A i \in 1..Len(est) :
                 LET it == artifacts[i]
                     size == IF "size" \in DOMAIN it THEN it.size ELSE 0
                 IN /\ DOMAIN est[i] = DOMAIN it \cup CostKeys
                    /\ \A f \in DOMAIN it \ CostKeys : est[i][f] = it[f]
                    /\ est[i].est_storage = FiveThousandths(size)
                    /\ est[i].est_egress =
                           AddDigits(est[i].est_storage, est[i].est_storage, 0)
                    /\ size = 1073741824 =>
                           /\ est[i].est_storage = <<0, 0, 0, 5>>
                           /\ est[i].est_egress = <<0, 0, 0, 10>>
           /\ response.total_storage =
                  SumCosts([i \in 1..Len(est) |-> est[i].est_storage], <<>>)
           /\ response.total_egress =
                  SumCosts([i \in 1..Len(est) |-> est[i].est_egress], <<>>)

\* C12: cost_estimates returns one costed item per input item in the same
\* order, with storage cost = size in GiB x 0.005 and egress cost = size in
\* GiB x 0.01 (1073741824 bytes give 0.005 and 0.01), totals equal to the
\* sums of the per-item costs, and it leaves the input items unchanged.
C12_CostPerItemAndTotals == [](C12_Costed) /\ [][artifacts' = artifacts]_vars

\* a call on several items, one of them of 1 GiB
C12_Witness ==
    /\ handler = "cost_estimates"
    /\ Len(artifacts) >= 2
    /\ \E i \in 1..Len(artifacts) : artifacts[i] = [name |-> 3, size |-> 1073741824]
    /\ \E i \in 1..Len(artifacts) : "size" \notin DOMAIN artifacts[i]
    /\ response.total_egress = <<0, 0, 0, 10>>

\* ======================================================================
\* restore_b2_to_local (app.py:270-295) under api_restore (app.py:633-644)
\* ======================================================================
\* Requests are POSTs to /api/restore for one non-empty name and scope; the
\* server that app.run() starts handles each in a thread of its own, so the
\* file-system calls of two requests interleave.  A step is one call that
\* reads or writes the file system: dest.exists(), the rclone subprocess,
\* next(staging.iterdir()), staging_file.replace(dest).
NumRequests == 2   \* requests in flight for the same name
MaxVersions == 2   \* versions of the remote object that a copy may fetch

Requests == 1..NumRequests

\* Content 0 is a destination file that was there before any request; 1 and
\* up are the versions of the remote object.
Versions == 1..MaxVersions

DestPath == "<dest_dir>/<name>"

\* api_restore's answer to what restore_b2_to_local returned
api_restore(res) ==
    IF res.code = 0
    THEN [status |-> 200, body |-> <<"restored to", res.out>>]
    ELSE [status |-> 500, body |-> <<"restore failed:", res.err>>]

Returned(res) == [code |-> res.code, out |-> res.out, err |-> res.err,
                  http |-> api_restore(res)]

DestinationExists == [code |-> 1, out |-> "", err |-> "destination exists"]

\* what `rclone copy` does: it exits 0 with the object in the staging
\* directory, or fails in one of run_cmd's ways and leaves it as it was
CopyOutcomes ==
    {Exit(0, "", ""), Exit(3, "", "directory not found"),
     [how |-> "timeout", noout |-> ""], [how |-> "notfound", noout |-> ""]}

InitRestore ==
    /\ RunsOff
    /\ InvOff
    /\ dest \in {<<>>, <<0>>}
    /\ staging = <<>>
    /\ rpc = [r \in Requests |-> "idle"]
    /\ picked = [r \in Requests |-> FALSE]
    /\ ret = [r \in Requests |-> <<>>]
    /\ writers = <<>>

\* app.py:278-282: mkdir, then the test dest.exists()
RestoreCall(r) ==
    /\ rpc[r] = "idle"
    /\ IF dest # <<>>
       THEN /\ rpc' = [rpc EXCEPT ![r] = "done"]
            /\ ret' = [ret EXCEPT ![r] = Returned(DestinationExists)]
       ELSE /\ rpc' = [rpc EXCEPT ![r] = "copy"]
            /\ ret' = ret
    /\ UNCHANGED <<dest, staging, picked, writers>>
    /\ UNCHANGED <<runsVars, invVars>>

\* app.py:283-289: rclone copy into /tmp/restore-<name>
RestoreCopy(r) ==
    /\ rpc[r] = "copy"
    /\ \E p \in CopyOutcomes, v \in Versions :
          LET res == run_cmd(p)
          IN IF res.code # 0
             THEN /\ rpc' = [rpc EXCEPT ![r] = "done"]
                  /\ ret' = [ret EXCEPT ![r] = Returned(res)]
                  /\ staging' = staging
             ELSE /\ rpc' = [rpc EXCEPT ![r] = "pick"]
                  /\ ret' = ret
                  /\ staging' = <<v>>
    /\ UNCHANGED <<dest, picked, writers>>
    /\ UNCHANGED <<runsVars, invVars>>

\* app.py:291: next(staging.iterdir()) raises StopIteration on an empty
\* directory; str() of it is ""
RestorePick(r) ==
    /\ rpc[r] = "pick"
    /\ IF staging = <<>>
       THEN /\ rpc' = [rpc EXCEPT ![r] = "done"]
            /\ ret' = [ret EXCEPT ![r] = Returned([code |-> 1, out |-> "", err |-> ""])]
            /\ picked' = picked
       ELSE /\ rpc' = [rpc EXCEPT ![r] = "replace"]
            /\ ret' = ret
            /\ picked' = [picked EXCEPT ![r] = TRUE]
    /\ UNCHANGED <<dest, staging, writers>>
    /\ UNCHANGED <<runsVars, invVars>>

\* app.py:292-295: staging_file.replace(dest) is os.replace: it renames the
\* staging file over dest whether or not dest exists.  It raises when the
\* staging file is gone, or (ok = FALSE) when the rename is refused, as
\* across file systems.
RestoreReplace(r) ==
    /\ rpc[r] = "replace"
    /\ \E ok \in BOOLEAN :
          IF staging = <<>>
          THEN /\ ret' = [ret EXCEPT ![r] = Returned([code |-> 1, out |-> "",
                                                      err |-> "No such file or directory"])]
               /\ UNCHANGED <<dest, staging, writers>>
          ELSE IF ~ok
          THEN /\ ret' = [ret EXCEPT ![r] = Returned([code |-> 1, out |-> "",
                                                      err |-> "Invalid cross-device link"])]
               /\ UNCHANGED <<dest, staging, writers>>
          ELSE /\ dest' = staging
               /\ staging' = <<>>
               /\ writers' = Append(writers, r)
               /\ ret' = [ret EXCEPT ![r] = Returned([code |-> 0, out |-> DestPath,
                                                      err |-> ""])]
    /\ rpc' = [rpc EXCEPT ![r] = "done"]
    /\ picked' = [picked EXCEPT ![r] = FALSE]
    /\ UNCHANGED <<runsVars, invVars>>

Restore ==
    \E r \in Requests :
        RestoreCall(r) \/ RestoreCopy(r) \/ RestorePick(r) \/ RestoreReplace(r)

SpecRestore == InitRestore /\ [][Restore]_vars

\* a request that finds the destination present is refused, and no step
\* changes a destination that exists
C13_StepKeepsDestination ==
    /\ dest # <<>> => dest' = dest
    /\ \A r \in Requests :
          rpc[r] = "idle" /\ rpc'[r] # "idle" /\ dest # <<>> =>
              /\ rpc'[r] = "done"
              /\ ret'[r].code = 1
              /\ ret'[r].err = "destination exists"

\* C13: restore_b2_to_local never replaces an existing destination file: a
\* call that finds the destination returns code 1 with 'destination exists'
\* and leaves the content as it is, also when two requests for the same
\* name run concurrently: at most one of them writes the destination.
C13_NeverReplacesDestination ==
    [](Len(writers) <= 1) /\ [][C13_StepKeepsDestination]_vars

====
